---- MODULE Spec2Model ----
(***************************************************************************)
(* Rent vs Sell calculator (src/calculator.js).                            *)
(*                                                                         *)
(* JavaScript numbers are modelled as exact rationals <<n, d>> (d > 0, in  *)
(* lowest terms).  Four specifications share the variables:                *)
(*   Spec     the projection loop of calculate() and the views fed by it,  *)
(*            run on validated input snapshots;                            *)
(*   SpecBal  calculateRemainingBalance as a pure function;                *)
(*   SpecForm the form fields as text: validation, reading, the URL;       *)
(*   SpecUI   the page in time: events, the debounce timer, calculate().   *)
(***************************************************************************)
EXTENDS Integers, Sequences, FiniteSets, TLC

VARIABLES
    snap,               \* the constants calculate() reads at lines 245-270
    currentYearlyData,  \* module-level copy of the last yearlyData (line 49)
    rowClasses,         \* class of each row of #resultsTable (line 571)
    summary,            \* what updateSummary last rendered (lines 599-634)
    running,            \* final cumulativeRentalCashFlow / sellYear0Baseline
    bal,                \* SpecBal: arguments and result of the balance function
    inputs,             \* the text of every form field (lines 23-46)
    search,             \* window.location.search
    pc,                 \* where the page is: "load", "calc" or "ready"
    saved,              \* the field texts at the last saveToURL
    timers,             \* the pending timeouts of the window: [id, due]
    timeoutId,          \* the timeoutId of the debounce closure (line 15)
    now,                \* the clock, in ms since the page was opened
    log                 \* the events and the calculate() calls so far

viewVars == <<currentYearlyData, rowClasses, summary, running>>

formVars == <<inputs, search, pc, saved>>

uiVars == <<timers, timeoutId, now, log>>

vars == <<snap, viewVars, bal, formVars, uiVars>>

(***************************************************************************)
(* Numbers                                                                 *)
(***************************************************************************)
Abs(x) == IF x < 0 THEN -x ELSE x

RECURSIVE GCD(_, _)
GCD(a, b) == IF b = 0 THEN a ELSE GCD(b, a % b)

LCM(a, b) == (a \div GCD(a, b)) * b

Norm(n, d) == LET g == GCD(Abs(n), d) IN <<n \div g, d \div g>>

R(n) == <<n, 1>>

RNeg(a) == <<-a[1], a[2]>>

RAdd(a, b) ==
    LET l == LCM(a[2], b[2])
    IN  Norm(a[1] * (l \div a[2]) + b[1] * (l \div b[2]), l)

RSub(a, b) == RAdd(a, RNeg(b))

RMul(a, b) ==
    LET g1 == GCD(Abs(a[1]), b[2])
        g2 == GCD(Abs(b[1]), a[2])
    IN  IF a[1] = 0 \/ b[1] = 0 THEN R(0)
        ELSE <<(a[1] \div g1) * (b[1] \div g2), (a[2] \div g2) * (b[2] \div g1)>>

RInv(a) == IF a[1] < 0 THEN <<-a[2], -a[1]>> ELSE <<a[2], a[1]>>

RDiv(a, b) == RMul(a, RInv(b))

RLt(a, b) == a[1] * b[2] < b[1] * a[2]

RLe(a, b) == a[1] * b[2] <= b[1] * a[2]

RMax(a, b) == IF RLt(a, b) THEN b ELSE a

RMin(a, b) == IF RLt(b, a) THEN b ELSE a

RECURSIVE RPow(_, _)
RPow(b, k) == IF k = 0 THEN R(1) ELSE RMul(b, RPow(b, k - 1))

\* 1 + p / 100, the growth factor of a percentage p
Growth(p) == RAdd(R(1), RDiv(p, R(100)))

(***************************************************************************)
(* Amortization                                                            *)
(***************************************************************************)
calculateMonthlyPayment(principal, annualRate, years) ==
    IF annualRate = R(0) THEN RDiv(principal, R(years * 12))
    ELSE LET monthlyRate == RDiv(RDiv(annualRate, R(100)), R(12))
             numPayments == years * 12
             factor      == RPow(RAdd(R(1), monthlyRate), numPayments)
         IN  RDiv(RMul(principal, RMul(monthlyRate, factor)), RSub(factor, R(1)))

calculateRemainingBalance(principal, monthlyRate, totalMonths, monthsPaid) ==
    IF monthlyRate = R(0)
    THEN RSub(principal, RMul(RDiv(principal, R(totalMonths)), R(monthsPaid)))
    ELSE LET factor     == RPow(RAdd(R(1), monthlyRate), totalMonths)
             paidFactor == RPow(RAdd(R(1), monthlyRate), monthsPaid)
             balance    == RDiv(RMul(principal, RSub(factor, paidFactor)),
                                RSub(factor, R(1)))
         IN  RMax(R(0), balance)

(***************************************************************************)
(* Dates.  A date text is a sequence of one-character strings; the model   *)
(* reads the ISO form YYYY-MM-DD and takes every other text as invalid.    *)
(***************************************************************************)
Digits == {"0", "1", "2", "3", "4", "5", "6", "7", "8", "9"}

DigitVal(c) ==
    CASE c = "0" -> 0 [] c = "1" -> 1 [] c = "2" -> 2 [] c = "3" -> 3
      [] c = "4" -> 4 [] c = "5" -> 5 [] c = "6" -> 6 [] c = "7" -> 7
      [] c = "8" -> 8 [] c = "9" -> 9

\* new Date(): the reference "now" of a run (3 November 2026, month 0-based)
Now == [year |-> 2026, month |-> 10, day |-> 3]

TodayISO == <<"2", "0", "2", "6", "-", "1", "1", "-", "0", "3">>

\* new Date(text): [valid, year, month (0-based), day]
DateParse(s) ==
    IF /\ Len(s) = 10
       /\ s[5] = "-" /\ s[8] = "-"
       /\ \A i \in {1, 2, 3, 4, 6, 7, 9, 10} : s[i] \in Digits
    THEN LET y == 1000 * DigitVal(s[1]) + 100 * DigitVal(s[2])
                  + 10 * DigitVal(s[3]) + DigitVal(s[4])
             m == 10 * DigitVal(s[6]) + DigitVal(s[7])
             d == 10 * DigitVal(s[9]) + DigitVal(s[10])
         IN  [valid |-> m \in 1..12 /\ d \in 1..31,
              year |-> y, month |-> m - 1, day |-> d]
    ELSE [valid |-> FALSE, year |-> 0, month |-> 0, day |-> 0]

getMonthsElapsed(originDateStr) ==
    LET originDate == DateParse(originDateStr)
        months == (Now.year - originDate.year) * 12
                  + (Now.month - originDate.month)
    IN  IF months - 1 > 0 THEN months - 1 ELSE 0

(***************************************************************************)
(* The projection loop of calculate(), lines 267-434                       *)
(***************************************************************************)
PRIMARY_RESIDENCE_EXEMPTION_CAP == 500000


\* mutant: the loop stops one year early
LoopCond_Exclusive(year, yearsToHold) == year < yearsToHold

LoopCond(year, yearsToHold) == year <= yearsToHold

RentalTax_OnLosses(grossRentalProfit, rentalTaxRate) ==
    RMul(grossRentalProfit, RDiv(rentalTaxRate, R(100)))

RentalTax(grossRentalProfit, rentalTaxRate) ==
    IF RLt(R(0), grossRentalProfit)
    THEN RMul(grossRentalProfit, RDiv(rentalTaxRate, R(100)))
    ELSE R(0)


\* mutant: year 0 counts its cash flow
YearCashFlow_CountsYear0(year, netRentalCashFlow) == netRentalCashFlow

YearCashFlow(year, netRentalCashFlow) ==
    IF year = 0 THEN R(0) ELSE netRentalCashFlow

ReportedCumulative(year, cumulativeRentalCashFlow) ==
    IF year = 0 THEN R(0) ELSE cumulativeRentalCashFlow


\* mutant: the exempted gain is not floored at 0
CapitalGainsTaxOwed_NoFloor(capitalGain, netSaleProceeds, isPrimaryResidence, year, capitalGainsTax) ==
    IF RLt(R(0), capitalGain)
    THEN IF RLt(netSaleProceeds, R(0)) THEN R(0)
         ELSE IF isPrimaryResidence /\ year <= 3
         THEN RMul(RSub(capitalGain, R(500000)), RDiv(capitalGainsTax, R(100)))
         ELSE RMul(capitalGain, RDiv(capitalGainsTax, R(100)))
    ELSE R(0)

CapitalGainsTaxOwed(capitalGain, netSaleProceeds, isPrimaryResidence, year, capitalGainsTax) ==
    LET isUnderwater == RLt(netSaleProceeds, R(0))
    IN  IF RLt(R(0), capitalGain)
        THEN IF isUnderwater THEN R(0)
             ELSE IF isPrimaryResidence /\ year <= 3
             THEN LET taxableGain ==
                        RMax(R(0), RSub(capitalGain,
                                        R(PRIMARY_RESIDENCE_EXEMPTION_CAP)))
                  IN  RMul(taxableGain, RDiv(capitalGainsTax, R(100)))
             ELSE RMul(capitalGain, RDiv(capitalGainsTax, R(100)))
        ELSE R(0)

Baseline_Late(year, sellYear0Baseline, netAfterTaxProceeds) == sellYear0Baseline

Baseline(year, sellYear0Baseline, netAfterTaxProceeds) ==
    IF year = 0 THEN netAfterTaxProceeds ELSE sellYear0Baseline


\* mutant: a negative baseline compounds like a positive one
SellYear0Total_AlwaysGrows(sellYear0Baseline, investmentReturn, year) ==
    RMul(sellYear0Baseline, RPow(Growth(investmentReturn), year))

SellYear0Total(sellYear0Baseline, investmentReturn, year) ==
    IF RLt(R(0), sellYear0Baseline)
    THEN RMul(sellYear0Baseline, RPow(Growth(investmentReturn), year))
    ELSE sellYear0Baseline

SimpleRentalNetWorth_NoException(year, netAfterTaxProceeds, cumulativeRentalCashFlow) ==
    RAdd(netAfterTaxProceeds, cumulativeRentalCashFlow)

SimpleRentalNetWorth(year, netAfterTaxProceeds, cumulativeRentalCashFlow) ==
    IF year = 0 /\ RLt(R(0), netAfterTaxProceeds) THEN R(0)
    ELSE RAdd(netAfterTaxProceeds, cumulativeRentalCashFlow)


\* mutant: a tie is tagged "rent"
BetterOption_TiesHold(simpleRentalNetWorth, sellYear0Total) ==
    IF RLe(sellYear0Total, simpleRentalNetWorth) THEN "rent" ELSE "sell"

BetterOption(simpleRentalNetWorth, sellYear0Total) ==
    IF RLt(sellYear0Total, simpleRentalNetWorth) THEN "rent" ELSE "sell"

\* One iteration of the loop body.  The constants of the body are gathered
\* in a record that grows in the order of the source; YearStep gives the
\* record pushed and the running state after the iteration.
PropertyValues(s, monthsElapsed, year) ==
    [year |-> year,
     homeValue |->
         RMul(s.currentHomeValue, RPow(Growth(s.homeAppreciation), year)),
     loanBalance |->
         calculateRemainingBalance(s.originalLoanAmount,
                                   RDiv(RDiv(s.interestRate, R(100)), R(12)),
                                   s.mortgageTerm * 12,
                                   monthsElapsed + year * 12)]

RentAndCosts(s, monthlyPI, c) ==
    LET inflationFactor == RPow(Growth(s.costInflation), c.year)
        rentGrowthExponent == IF c.year - 1 > 0 THEN c.year - 1 ELSE 0
    IN  c @@ [currentRent |->
                  RMul(s.rentalPrice,
                       RPow(Growth(s.annualRentIncrease), rentGrowthExponent)),
              monthlyOwnershipCost |->
                  RAdd(RAdd(RAdd(RAdd(monthlyPI,
                                      RMul(s.monthlyTaxes, inflationFactor)),
                                 RMul(s.monthlyInsurance, inflationFactor)),
                            RMul(s.monthlyHOA, inflationFactor)),
                       RMul(s.monthlyMaintenance, inflationFactor))]

RentalIncome(s, c) ==
    LET annualRentalIncome == RMul(c.currentRent, R(12))
    IN  c @@ [annualRentalIncome |-> annualRentalIncome,
              annualMgmtFee |->
                  RMul(annualRentalIncome, RDiv(s.propertyMgmtFee, R(100))),
              annualOwnershipCosts |-> RMul(c.monthlyOwnershipCost, R(12))]

RentalProfit(s, c) ==
    LET grossRentalProfit ==
            RSub(RSub(c.annualRentalIncome, c.annualMgmtFee), c.annualOwnershipCosts)
    IN  c @@ [netRentalCashFlow |->
                  RSub(grossRentalProfit,
                       RentalTax(grossRentalProfit, s.rentalTaxRate))]

CashFlow(c, cumIn) ==
    LET yearCashFlow == YearCashFlow(c.year, c.netRentalCashFlow)
    IN  c @@ [yearCashFlow |-> yearCashFlow,
              cumulativeRentalCashFlow |-> RAdd(cumIn, yearCashFlow)]

SaleProceeds(s, c) ==
    LET sellingCosts == RMul(c.homeValue, RDiv(s.sellingFees, R(100)))
    IN  c @@ [sellingCosts |-> sellingCosts,
              netSaleProceeds |->
                  RSub(RSub(c.homeValue, c.loanBalance), sellingCosts),
              capitalGain |-> RSub(c.homeValue, s.purchasePrice)]

AfterTax(s, c) ==
    LET capitalGainsTaxOwed ==
            CapitalGainsTaxOwed(c.capitalGain, c.netSaleProceeds,
                                s.isPrimaryResidence, c.year, s.capitalGainsTax)
    IN  c @@ [capitalGainsTaxOwed |-> capitalGainsTaxOwed,
              netAfterTaxProceeds |-> RSub(c.netSaleProceeds, capitalGainsTaxOwed)]

Trajectories(s, c, baseIn) ==
    LET sellYear0Baseline == Baseline(c.year, baseIn, c.netAfterTaxProceeds)
    IN  c @@ [sellYear0Baseline |-> sellYear0Baseline,
              sellYear0Total |->
                  SellYear0Total(sellYear0Baseline, s.investmentReturn, c.year),
              simpleRentalNetWorth |->
                  SimpleRentalNetWorth(c.year, c.netAfterTaxProceeds,
                                       c.cumulativeRentalCashFlow)]

\* yearlyData.push({...}), lines 413-433
YearRecord(c) ==
    [year |-> c.year,
     homeValue |-> c.homeValue,
     loanBalance |-> c.loanBalance,
     equity |-> RSub(c.homeValue, c.loanBalance),
     netRentalCashFlow |-> c.yearCashFlow,
     cumulativeRentalCashFlow |->
         ReportedCumulative(c.year, c.cumulativeRentalCashFlow),
     simpleRentalNetWorth |-> c.simpleRentalNetWorth,
     sellingCosts |-> c.sellingCosts,
     capitalGainsTaxOwed |-> c.capitalGainsTaxOwed,
     netAfterTaxProceeds |-> c.netAfterTaxProceeds,
     sellYear0Total |-> c.sellYear0Total,
     betterOption |-> BetterOption(c.simpleRentalNetWorth, c.sellYear0Total),
     monthlyBreakdown |->
         [rent |-> IF c.year = 0 THEN R(0) ELSE c.currentRent,
          expenses |-> IF c.year = 0 THEN R(0)
                       ELSE RAdd(c.monthlyOwnershipCost,
                                 RDiv(c.annualMgmtFee, R(12)))]]

YearOut(c) ==
    [rec |-> YearRecord(c),
     cum |-> c.cumulativeRentalCashFlow,
     base |-> c.sellYear0Baseline]

YearStep(s, monthlyPI, monthsElapsed, year, cumIn, baseIn) ==
    YearOut(
      Trajectories(s,
        AfterTax(s,
          SaleProceeds(s,
            CashFlow(
              RentalProfit(s,
                RentalIncome(s,
                  RentAndCosts(s, monthlyPI,
                    PropertyValues(s, monthsElapsed, year)))),
              cumIn))),
        baseIn))

RECURSIVE Loop(_, _, _, _, _, _, _)
Loop(s, monthlyPI, monthsElapsed, year, cum, base, yearlyData) ==
    IF LoopCond(year, s.yearsToHold)
    THEN LET st == YearStep(s, monthlyPI, monthsElapsed, year, cum, base)
         IN  Loop(s, monthlyPI, monthsElapsed, year + 1, st.cum, st.base,
                  Append(yearlyData, st.rec))
    ELSE [yearlyData |-> yearlyData, cum |-> cum, base |-> base]

\* The locals the loop starts from (lines 276-282)
InitialRunning == [cum |-> R(0), base |-> R(0)]

\* The locals are declared inside calculate(): what the previous invocation
\* left in them (prev) is not what the loop is entered with
EnterLoop_Carried(prev) == prev

EnterLoop(prev) == InitialRunning

Project(s) ==
    LET monthlyPI == calculateMonthlyPayment(s.originalLoanAmount, s.interestRate,
                                             s.mortgageTerm)
    IN  Loop(s, monthlyPI, getMonthsElapsed(s.loanOriginDate), 0,
             EnterLoop(running).cum, EnterLoop(running).base, <<>>)

(***************************************************************************)
(* The views                                                               *)
(***************************************************************************)
RowClass(d) == IF d.betterOption = "rent" THEN "rent-better" ELSE "sell-better"

updateTable(data) == [i \in 1..Len(data) |-> RowClass(data[i])]

SummaryBetter(difference) == IF RLe(R(0), difference) THEN "Rent" ELSE "Sell"

updateSummary(data) ==
    LET finalYear == data[Len(data)]
        endRentalValue == finalYear.simpleRentalNetWorth
        endSellValue == finalYear.sellYear0Total
        difference == RSub(endRentalValue, endSellValue)
    IN  [year |-> finalYear.year,
         endRentalValue |-> endRentalValue,
         endSellValue |-> endSellValue,
         difference |-> difference,
         better |-> SummaryBetter(difference)]

NoSummary == [year |-> -1, endRentalValue |-> R(0), endSellValue |-> R(0),
              difference |-> R(0), better |-> "none"]

(***************************************************************************)
(* Text.  A field value is a sequence of one-character strings.  NaN and   *)
(* Infinity are the pairs with denominator 0.                              *)
(***************************************************************************)
NaN == <<0, 0>>

Infinity == <<1, 0>>

IsNaN(x) == x = NaN

RECURSIVE Pow10(_)
Pow10(k) == IF k = 0 THEN 1 ELSE 10 * Pow10(k - 1)

RECURSIVE SkipWhite(_, _)
SkipWhite(s, i) == IF i <= Len(s) /\ s[i] = " " THEN SkipWhite(s, i + 1) ELSE i

\* the run of digits of s from index i: its value, its length, the index after it
RECURSIVE ScanDigits(_, _, _, _)
ScanDigits(s, i, val, n) ==
    IF i <= Len(s) /\ s[i] \in Digits
    THEN ScanDigits(s, i + 1, 10 * val + DigitVal(s[i]), n + 1)
    ELSE [val |-> val, n |-> n, next |-> i]

\* parseFloat: leading blanks, a sign, digits, a fraction, an exponent; the
\* rest of the text is ignored; NaN when no digit is found.  The scan is
\* done in steps, each adding what it found to the record a.
ScanSign(s) ==
    LET i0 == SkipWhite(s, 1)
    IN  [neg |-> i0 <= Len(s) /\ s[i0] = "-",
         i1 |-> IF i0 <= Len(s) /\ s[i0] \in {"-", "+"} THEN i0 + 1 ELSE i0]

ScanInteger(s, a) == a @@ [ip |-> ScanDigits(s, a.i1, 0, 0)]

ScanFraction(s, a) ==
    a @@ [fp |-> IF a.ip.next <= Len(s) /\ s[a.ip.next] = "."
                 THEN ScanDigits(s, a.ip.next + 1, 0, 0)
                 ELSE [val |-> 0, n |-> 0, next |-> a.ip.next]]

ScanExponent(s, a) ==
    LET i2 == a.fp.next
        hasE == i2 <= Len(s) /\ s[i2] \in {"e", "E"}
        eSigned == hasE /\ i2 + 1 <= Len(s) /\ s[i2 + 1] \in {"-", "+"}
    IN  a @@ [eNeg |-> eSigned /\ s[i2 + 1] = "-",
              ep |-> IF hasE
                     THEN ScanDigits(s, IF eSigned THEN i2 + 2 ELSE i2 + 1, 0, 0)
                     ELSE [val |-> 0, n |-> 0, next |-> i2]]

ScannedValue(a) ==
    LET mantissa == RAdd(R(a.ip.val), Norm(a.fp.val, Pow10(a.fp.n)))
        scaled == IF a.ep.n = 0 THEN mantissa
                  ELSE IF a.eNeg THEN RDiv(mantissa, R(Pow10(a.ep.val)))
                  ELSE RMul(mantissa, R(Pow10(a.ep.val)))
    IN  IF a.ip.n + a.fp.n = 0 THEN NaN
        ELSE IF a.neg THEN RNeg(scaled) ELSE scaled

parseFloat(s) ==
    ScannedValue(ScanExponent(s, ScanFraction(s, ScanInteger(s, ScanSign(s)))))

\* parseInt without a radix: leading blanks, a sign, decimal digits (the
\* texts of the model hold no "0x" prefix)
parseInt(s) ==
    LET i0 == SkipWhite(s, 1)
        signed == i0 <= Len(s) /\ s[i0] \in {"-", "+"}
        neg == signed /\ s[i0] = "-"
        ip == ScanDigits(s, IF signed THEN i0 + 1 ELSE i0, 0, 0)
    IN  IF ip.n = 0 THEN NaN
        ELSE IF neg THEN R(-ip.val) ELSE R(ip.val)

\* x || d
OrDefault(x, d) == IF IsNaN(x) \/ x = R(0) THEN d ELSE x

DigitChar(k) ==
    CASE k = 0 -> "0" [] k = 1 -> "1" [] k = 2 -> "2" [] k = 3 -> "3"
      [] k = 4 -> "4" [] k = 5 -> "5" [] k = 6 -> "6" [] k = 7 -> "7"
      [] k = 8 -> "8" [] k = 9 -> "9"

RECURSIVE NatToText(_)
NatToText(k) ==
    IF k < 10 THEN <<DigitChar(k)>>
    ELSE Append(NatToText(k \div 10), DigitChar(k % 10))

\* the decimal digits of the fraction num / den < 1, while it terminates
RECURSIVE FracToText(_, _, _)
FracToText(num, den, left) ==
    IF num = 0 \/ left = 0 THEN <<>>
    ELSE <<DigitChar((10 * num) \div den)>>
            \o FracToText((10 * num) % den, den, left - 1)

\* String(val), as the assignment input.value = val converts a number
NumberToString(x) ==
    IF x = NaN THEN <<"N", "a", "N">>
    ELSE LET mag == Abs(x[1])
             whole == NatToText(mag \div x[2])
             frac == FracToText(mag % x[2], x[2], 6)
             body == IF frac = <<>> THEN whole ELSE whole \o <<".">> \o frac
         IN  IF x[1] < 0 THEN <<"-">> \o body ELSE body

(***************************************************************************)
(* Validation, lines 192-232                                               *)
(***************************************************************************)
\* Math.min(max, Math.max(min, val))
Clamp(val, min, max) ==
    LET lo == RMax(min, val)
    IN  IF max = Infinity THEN lo ELSE RMin(max, lo)

\* clampInput: the value returned and the text left in the field
clampInput(text, min, max, isInt) ==
    LET parsed == IF isInt THEN parseInt(text) ELSE parseFloat(text)
        val == Clamp(IF IsNaN(parsed) THEN min ELSE parsed, min, max)
    IN  [val |-> val,
         text |-> IF text # <<>> /\ parseFloat(text) # val
                  THEN NumberToString(val) ELSE text]

\* the calls of lines 207-224
Ranges ==
    [purchasePrice      |-> [min |-> R(0),   max |-> Infinity, isInt |-> FALSE],
     originalLoanAmount |-> [min |-> R(0),   max |-> Infinity, isInt |-> FALSE],
     interestRate       |-> [min |-> R(0),   max |-> R(30),    isInt |-> FALSE],
     currentHomeValue   |-> [min |-> R(0),   max |-> Infinity, isInt |-> FALSE],
     monthlyHOA         |-> [min |-> R(0),   max |-> Infinity, isInt |-> FALSE],
     monthlyTaxes       |-> [min |-> R(0),   max |-> Infinity, isInt |-> FALSE],
     monthlyInsurance   |-> [min |-> R(0),   max |-> Infinity, isInt |-> FALSE],
     monthlyMaintenance |-> [min |-> R(0),   max |-> Infinity, isInt |-> FALSE],
     rentalPrice        |-> [min |-> R(0),   max |-> Infinity, isInt |-> FALSE],
     annualRentIncrease |-> [min |-> R(0),   max |-> R(20),    isInt |-> FALSE],
     propertyMgmtFee    |-> [min |-> R(0),   max |-> R(100),   isInt |-> FALSE],
     rentalTaxRate      |-> [min |-> R(0),   max |-> R(100),   isInt |-> FALSE],
     homeAppreciation   |-> [min |-> R(-20), max |-> R(30),    isInt |-> FALSE],
     costInflation      |-> [min |-> R(0),   max |-> R(20),    isInt |-> FALSE],
     sellingFees        |-> [min |-> R(0),   max |-> R(100),   isInt |-> FALSE],
     capitalGainsTax    |-> [min |-> R(0),   max |-> R(100),   isInt |-> FALSE],
     investmentReturn   |-> [min |-> R(-50), max |-> R(50),    isInt |-> FALSE],
     yearsToHold        |-> [min |-> R(1),   max |-> R(30),    isInt |-> TRUE]]

NumericFields == DOMAIN Ranges

\* parsed > new Date(): the date lies after the reference day
InFuture(d) ==
    \/ d.year > Now.year
    \/ d.year = Now.year /\ d.month > Now.month
    \/ d.year = Now.year /\ d.month = Now.month /\ d.day > Now.day

ValidDateText(dateVal) ==
    LET parsed == DateParse(dateVal)
    IN  IF dateVal = <<>> \/ ~parsed.valid \/ InFuture(parsed)
        THEN TodayISO ELSE dateVal

validateInputs(in) ==
    [f \in DOMAIN in |->
        IF f \in NumericFields
        THEN clampInput(in[f], Ranges[f].min, Ranges[f].max, Ranges[f].isInt).text
        ELSE IF f = "loanOriginDate" THEN ValidDateText(in[f])
        ELSE in[f]]

\* formatCurrency(calculateMonthlyPayment(...)) as shown in the monthlyPI
\* field: kept as the unevaluated amount, a text no field is compared with
PaymentText(loanAmount, interestRate, term) ==
    <<"$", loanAmount, interestRate, term>>

updateMonthlyPaymentDisplay(in) ==
    LET loanAmount == OrDefault(parseFloat(in.originalLoanAmount), R(0))
        interestRate == OrDefault(parseFloat(in.interestRate), R(0))
        term == OrDefault(parseInt(in.mortgageTerm), R(30))
    IN  [in EXCEPT !.monthlyPI = PaymentText(loanAmount, interestRate, term)]

Yes == <<"y", "e", "s">>

\* the constants of lines 245-265
ReadInputs(in) ==
    [purchasePrice      |-> OrDefault(parseFloat(in.purchasePrice), R(0)),
     loanOriginDate     |-> in.loanOriginDate,
     originalLoanAmount |-> OrDefault(parseFloat(in.originalLoanAmount), R(0)),
     interestRate       |-> OrDefault(parseFloat(in.interestRate), R(0)),
     mortgageTerm       |-> OrDefault(parseInt(in.mortgageTerm), R(30))[1],
     currentHomeValue   |-> OrDefault(parseFloat(in.currentHomeValue), R(0)),
     monthlyHOA         |-> OrDefault(parseFloat(in.monthlyHOA), R(0)),
     monthlyTaxes       |-> OrDefault(parseFloat(in.monthlyTaxes), R(0)),
     monthlyInsurance   |-> OrDefault(parseFloat(in.monthlyInsurance), R(0)),
     monthlyMaintenance |-> OrDefault(parseFloat(in.monthlyMaintenance), R(0)),
     rentalPrice        |-> OrDefault(parseFloat(in.rentalPrice), R(0)),
     annualRentIncrease |-> OrDefault(parseFloat(in.annualRentIncrease), R(0)),
     propertyMgmtFee    |-> OrDefault(parseFloat(in.propertyMgmtFee), R(0)),
     rentalTaxRate      |-> OrDefault(parseFloat(in.rentalTaxRate), R(0)),
     homeAppreciation   |-> OrDefault(parseFloat(in.homeAppreciation), R(0)),
     costInflation      |-> OrDefault(parseFloat(in.costInflation), R(0)),
     sellingFees        |-> OrDefault(parseFloat(in.sellingFees), R(0)),
     capitalGainsTax    |-> OrDefault(parseFloat(in.capitalGainsTax), R(0)),
     investmentReturn   |-> OrDefault(parseFloat(in.investmentReturn), R(0)),
     yearsToHold        |-> OrDefault(parseInt(in.yearsToHold), R(10))[1],
     isPrimaryResidence |-> in.primaryResidence = Yes]

(***************************************************************************)
(* The URL, lines 640-667.  A query string is a sequence of symbols: the   *)
(* characters of the values and, as one symbol each, the field keys (they  *)
(* are identifiers, which the serializer leaves as they are).              *)
(***************************************************************************)
\* Object.entries(inputs): the keys in the order of lines 24-45
InputKeys ==
    <<"purchasePrice",
     "loanOriginDate",
     "originalLoanAmount",
     "interestRate",
     "mortgageTerm",
     "monthlyPI",
     "primaryResidence",
     "currentHomeValue",
     "monthlyHOA",
     "monthlyTaxes",
     "monthlyInsurance",
     "monthlyMaintenance",
     "rentalPrice",
     "annualRentIncrease",
     "propertyMgmtFee",
     "rentalTaxRate",
     "homeAppreciation",
     "costInflation",
     "sellingFees",
     "capitalGainsTax",
     "investmentReturn",
     "yearsToHold">>

Keys == {InputKeys[i] : i \in DOMAIN InputKeys}

SelectOptions ==
    [mortgageTerm     |-> {<<"1", "5">>, <<"2", "0">>, <<"3", "0">>},
     primaryResidence |-> {Yes, <<"n", "o">>}]

SelectFields == DOMAIN SelectOptions

\* the form as index.html ships it
HtmlDefaults ==
    [purchasePrice      |-> <<"3", "0", "0", "0", "0", "0">>,
     loanOriginDate     |-> <<"2", "0", "1", "2", "-", "0", "1", "-", "1", "5">>,
     originalLoanAmount |-> <<"3", "6", "0", "0", "0", "0">>,
     interestRate       |-> <<"0">>,
     mortgageTerm       |-> <<"3", "0">>,
     monthlyPI          |-> <<>>,
     primaryResidence   |-> <<"n", "o">>,
     currentHomeValue   |-> <<"4", "0", "0", "0", "0", "0">>,
     monthlyHOA         |-> <<"2", "0", "0">>,
     monthlyTaxes       |-> <<"1", "0", "0", "0">>,
     monthlyInsurance   |-> <<"3", "0", "0">>,
     monthlyMaintenance |-> <<"3", "0", "0">>,
     rentalPrice        |-> <<"2", "0", "0", "0">>,
     annualRentIncrease |-> <<"0">>,
     propertyMgmtFee    |-> <<"1", "0">>,
     rentalTaxRate      |-> <<"5", "0">>,
     homeAppreciation   |-> <<"0">>,
     costInflation      |-> <<"0">>,
     sellingFees        |-> <<"1", "0">>,
     capitalGainsTax    |-> <<"2", "0">>,
     investmentReturn   |-> <<"0">>,
     yearsToHold        |-> <<"1">>]

\* el.value = v: a select keeps only a value that is one of its options
SetValue(f, v) ==
    IF f \in SelectFields /\ v \notin SelectOptions[f] THEN <<>> ELSE v

\* application/x-www-form-urlencoded: a blank becomes "+", the reserved
\* characters are percent-encoded, letters, digits, "-" and "." are kept
EncodeChar_Raw(c) == <<c>>

EncodeChar(c) ==
    CASE c = " " -> <<"+">>
      [] c = "&" -> <<"%", "2", "6">>
      [] c = "=" -> <<"%", "3", "D">>
      [] c = "+" -> <<"%", "2", "B">>
      [] c = "%" -> <<"%", "2", "5">>
      [] OTHER   -> <<c>>

RECURSIVE EncodeText(_)
EncodeText(s) ==
    IF s = <<>> THEN <<>> ELSE EncodeChar(Head(s)) \o EncodeText(Tail(s))

\* the escapes of the characters the texts of the model are made of
Escapes == {<<"2", "6">>, <<"3", "D">>, <<"2", "B">>, <<"2", "5">>, <<"2", "0">>}

DecodeHex(h1, h2) ==
    CASE h1 = "2" /\ h2 = "6" -> "&"
      [] h1 = "3" /\ h2 = "D" -> "="
      [] h1 = "2" /\ h2 = "B" -> "+"
      [] h1 = "2" /\ h2 = "5" -> "%"
      [] h1 = "2" /\ h2 = "0" -> " "

RECURSIVE DecodeText(_)
DecodeText(s) ==
    IF s = <<>> THEN <<>>
    ELSE IF Head(s) = "+" THEN <<" ">> \o DecodeText(Tail(s))
    ELSE IF Head(s) = "%" /\ Len(s) >= 3 /\ <<s[2], s[3]>> \in Escapes
    THEN <<DecodeHex(s[2], s[3])>> \o DecodeText(SubSeq(s, 4, Len(s)))
    ELSE <<Head(s)>> \o DecodeText(Tail(s))

\* params.toString() of the pairs set for the keys ks
RECURSIVE Serialize(_, _)
Serialize(in, ks) ==
    IF ks = <<>> THEN <<>>
    ELSE LET k == Head(ks)
             rest == Serialize(in, Tail(ks))
         IN  IF k = "monthlyPI" THEN rest
             ELSE <<k, "=">> \o EncodeText(in[k])
                    \o (IF rest = <<>> THEN <<>> ELSE <<"&">> \o rest)

saveToURL(in) == <<"?">> \o Serialize(in, InputKeys)

\* the index of the first sep in s, or 0
RECURSIVE IndexOf(_, _, _)
IndexOf(s, sep, i) ==
    IF i > Len(s) THEN 0 ELSE IF s[i] = sep THEN i ELSE IndexOf(s, sep, i + 1)

\* new URLSearchParams(search): the sequence of <<name, value>> pairs
RECURSIVE ParsePairs(_)
ParsePairs(s) ==
    IF s = <<>> THEN <<>>
    ELSE LET cut == IndexOf(s, "&", 1)
             piece == IF cut = 0 THEN s ELSE SubSeq(s, 1, cut - 1)
             rest == IF cut = 0 THEN <<>> ELSE SubSeq(s, cut + 1, Len(s))
             eq == IndexOf(piece, "=", 1)
             name == IF eq = 0 THEN piece ELSE SubSeq(piece, 1, eq - 1)
             value == IF eq = 0 THEN <<>> ELSE SubSeq(piece, eq + 1, Len(piece))
         IN  IF piece = <<>> THEN ParsePairs(rest)
             ELSE <<<<DecodeText(name), DecodeText(value)>>>> \o ParsePairs(rest)

URLSearchParams(s) ==
    ParsePairs(IF s # <<>> /\ Head(s) = "?" THEN Tail(s) ELSE s)

ParamsHas(params, key) == \E i \in DOMAIN params : params[i][1] = <<key>>

ParamsGet(params, key) ==
    LET i == CHOOSE j \in DOMAIN params :
                 /\ params[j][1] = <<key>>
                 /\ \A k \in DOMAIN params : params[k][1] = <<key>> => j <= k
    IN  params[i][2]

loadFromURL(in, s) ==
    LET params == URLSearchParams(s)
    IN  IF Len(params) = 0 THEN in
        ELSE [f \in DOMAIN in |->
                IF f # "monthlyPI" /\ ParamsHas(params, f)
                THEN SetValue(f, ParamsGet(params, f)) ELSE in[f]]

(***************************************************************************)
(* Spec: calculate() on validated snapshots.  A snapshot holds the values  *)
(* calculate() has read from the form after validateInputs; a change event *)
(* replaces one of them and recalculates.  Percentages and amounts are     *)
(* taken from the validated ranges of lines 207-224.                       *)
(***************************************************************************)
MaxYears == 4

OriginText == <<"2", "0", "1", "2", "-", "0", "1", "-", "1", "5">>

Choices ==
    [purchasePrice      |-> {R(300000)},
     loanOriginDate     |-> {OriginText},
     originalLoanAmount |-> {R(360000), R(720000)},
     interestRate       |-> {R(0)},
     mortgageTerm       |-> {30},
     currentHomeValue   |-> {R(400000), R(1000000)},
     monthlyHOA         |-> {R(200)},
     monthlyTaxes       |-> {R(1000)},
     monthlyInsurance   |-> {R(300)},
     monthlyMaintenance |-> {R(300)},
     rentalPrice        |-> {R(2000), R(6000)},
     annualRentIncrease |-> {R(0), R(20)},
     propertyMgmtFee    |-> {R(10)},
     rentalTaxRate      |-> {R(50)},
     homeAppreciation   |-> {R(-20), R(0)},
     costInflation      |-> {R(0), R(20)},
     sellingFees        |-> {R(10)},
     capitalGainsTax    |-> {R(20)},
     investmentReturn   |-> {R(0), R(50)},
     yearsToHold        |-> {1, MaxYears},
     isPrimaryResidence |-> {TRUE, FALSE}]

Fields == DOMAIN Choices

Snapshots ==
    [purchasePrice      : Choices.purchasePrice,
     loanOriginDate     : Choices.loanOriginDate,
     originalLoanAmount : Choices.originalLoanAmount,
     interestRate       : Choices.interestRate,
     mortgageTerm       : Choices.mortgageTerm,
     currentHomeValue   : Choices.currentHomeValue,
     monthlyHOA         : Choices.monthlyHOA,
     monthlyTaxes       : Choices.monthlyTaxes,
     monthlyInsurance   : Choices.monthlyInsurance,
     monthlyMaintenance : Choices.monthlyMaintenance,
     rentalPrice        : Choices.rentalPrice,
     annualRentIncrease : Choices.annualRentIncrease,
     propertyMgmtFee    : Choices.propertyMgmtFee,
     rentalTaxRate      : Choices.rentalTaxRate,
     homeAppreciation   : Choices.homeAppreciation,
     costInflation      : Choices.costInflation,
     sellingFees        : Choices.sellingFees,
     capitalGainsTax    : Choices.capitalGainsTax,
     investmentReturn   : Choices.investmentReturn,
     yearsToHold        : Choices.yearsToHold,
     isPrimaryResidence : Choices.isPrimaryResidence]

\* the form is left alone by the specifications that do not model it
FormIdle ==
    /\ inputs = HtmlDefaults
    /\ search = <<>>
    /\ pc = "ready"
    /\ saved = <<>>

\* no event, no timer: the specifications that do not model time
UiIdle ==
    /\ timers = {}
    /\ timeoutId = 0
    /\ now = 0
    /\ log = <<>>

NoBal == [principal |-> R(0), monthlyRate |-> R(0), totalMonths |-> 1,
          monthsPaid |-> 0, result |-> R(0), called |-> FALSE]

Init ==
    /\ snap \in Snapshots
    /\ currentYearlyData = <<>>
    /\ rowClasses = <<>>
    /\ summary = NoSummary
    /\ running = InitialRunning
    /\ bal = NoBal
    /\ FormIdle
    /\ UiIdle

\* calculate(), lines 267-439, on the snapshot s
Render(s) ==
    LET out == Project(s)
    IN  /\ currentYearlyData' = out.yearlyData
        /\ rowClasses' = updateTable(out.yearlyData)
        /\ summary' = updateSummary(out.yearlyData)
        /\ running' = [cum |-> out.cum, base |-> out.base]

\* the call at line 671, when the script is loaded
calculate ==
    /\ currentYearlyData = <<>>
    /\ Render(snap)
    /\ UNCHANGED <<snap, bal, formVars, uiVars>>

\* a change of one field followed by calculate (lines 85-93)
Recalculate ==
    /\ currentYearlyData # <<>>
    /\ \E f \in Fields : \E v \in Choices[f] :
          /\ v # snap[f]
          /\ snap' = [snap EXCEPT ![f] = v]
          /\ Render(snap')
    /\ UNCHANGED <<bal, formVars, uiVars>>

Next == calculate \/ Recalculate

Spec == Init /\ [][Next]_vars

(***************************************************************************)
(* SpecBal: calculateRemainingBalance applied to bounded arguments         *)
(***************************************************************************)
MaxMonths == 3
MaxPaid == 5

BalArgs ==
    [principal   : {R(0), R(1000), R(240000)},
     monthlyRate : {R(0), <<1, 2>>, R(1)},
     totalMonths : 1..MaxMonths,
     monthsPaid  : 0..MaxPaid,
     result      : {R(0)},
     called      : {FALSE}]

DefaultSnap == CHOOSE s \in Snapshots : TRUE

InitBal ==
    /\ bal \in BalArgs
    /\ snap = DefaultSnap
    /\ currentYearlyData = <<>>
    /\ rowClasses = <<>>
    /\ summary = NoSummary
    /\ running = InitialRunning
    /\ FormIdle
    /\ UiIdle

CallBalance ==
    /\ ~bal.called
    /\ bal' = [bal EXCEPT
                 !.result = calculateRemainingBalance(bal.principal, bal.monthlyRate,
                                                      bal.totalMonths, bal.monthsPaid),
                 !.called = TRUE]
    /\ UNCHANGED <<snap, viewVars, formVars, uiVars>>

NextBal == CallBalance

SpecBal == InitBal /\ [][NextBal]_vars

(***************************************************************************)
(* SpecForm: what calculate() does with the text of the fields.  The form  *)
(* starts with one numeric field, the date and the selects holding any of  *)
(* the texts below; calculate() validates, reads and saves them, and the   *)
(* saved URL is opened again.  The projection is left to Spec: at an       *)
(* interest rate of 30% the factor (1 + r)^360 has no exact value here.    *)
(***************************************************************************)
T_ABC == <<"a", "b", "c">>

T_NEG == <<"-", "7", "5">>

T_BIG == <<"5", "0", "0">>

T_SEVEN == <<"7">>

T_FRAC == <<"1", ".", "5">>

T_JUNK == <<"5", " ", "&", "=", "+", "%">>

T_EXP == <<"3", "0", "0", "e", "-", "1">>

T_EXP1 == <<"0", ".", "1", "e", "1">>

T_FUTURE == <<"2", "0", "3", "0", "-", "0", "1", "-", "0", "1">>

NumericTexts ==
    {<<>>, T_ABC, T_NEG, T_BIG, T_SEVEN, T_FRAC, T_JUNK}

YearsTexts == {T_EXP, T_EXP1}

DateTexts == {<<>>, T_ABC, OriginText, T_FUTURE}

TextsOf(f) ==
    IF f = "yearsToHold" THEN NumericTexts \cup YearsTexts ELSE NumericTexts

Assignments ==
    {[HtmlDefaults EXCEPT ![f] = s, !.loanOriginDate = d,
                          !.primaryResidence = r, !.mortgageTerm = m] :
        f \in NumericFields, s \in NumericTexts \cup YearsTexts, d \in DateTexts,
        r \in SelectOptions.primaryResidence, m \in {<<"1", "5">>, <<"3", "0">>}}

InitForm ==
    /\ inputs \in {a \in Assignments :
                      \A f \in NumericFields : a[f] \in TextsOf(f) \cup {HtmlDefaults[f]}}
    /\ search = <<>>
    /\ pc = "calc"
    /\ saved = <<>>
    /\ snap = DefaultSnap
    /\ currentYearlyData = <<>>
    /\ rowClasses = <<>>
    /\ summary = NoSummary
    /\ running = InitialRunning
    /\ bal = NoBal
    /\ UiIdle

\* calculate(), lines 237-265 and 442
CalculateForm ==
    /\ pc = "calc"
    /\ LET shown == updateMonthlyPaymentDisplay(validateInputs(inputs))
       IN  /\ inputs' = shown
           /\ snap' = ReadInputs(shown)
           /\ search' = saveToURL(shown)
           /\ saved' = shown
    /\ pc' = "ready"
    /\ UNCHANGED <<viewVars, bal, uiVars>>

\* the saved URL is opened: the page starts from the form of index.html
OpenSavedURL ==
    /\ pc = "ready"
    /\ inputs' = HtmlDefaults
    /\ pc' = "load"
    /\ UNCHANGED <<snap, viewVars, bal, search, saved, uiVars>>

\* line 670
LoadFromURL ==
    /\ pc = "load"
    /\ inputs' = loadFromURL(inputs, search)
    /\ pc' = "calc"
    /\ UNCHANGED <<snap, viewVars, bal, search, saved, uiVars>>

NextForm == CalculateForm \/ OpenSavedURL \/ LoadFromURL

SpecForm == InitForm /\ [][NextForm]_vars

(***************************************************************************)
(* SpecUI: the page in time.  The script loads the URL and calculates      *)
(* (lines 670-671); then the user types in text fields ("input" events,    *)
(* debounced) and picks options of the selects ("change" events).  Timers  *)
(* are punctual: a timeout runs at the instant it is due, before the clock *)
(* moves on and before any event of that instant is handled.               *)
(***************************************************************************)
Delay == 100

MaxEvents == 2

MaxTime == 200

\* how far the clock moves between two steps of the page
Advances == {50}

T_6000 == <<"6", "0", "0", "0">>

T_TWO == <<"2">>

\* what the user types, and where
TypedTexts ==
    [rentalPrice |-> {T_6000, T_ABC},
     yearsToHold |-> {T_TWO, T_FRAC}]

InitUI ==
    /\ inputs = HtmlDefaults
    /\ search = <<>>
    /\ pc = "load"
    /\ saved = <<>>
    /\ snap = DefaultSnap
    /\ currentYearlyData = <<>>
    /\ rowClasses = <<>>
    /\ summary = NoSummary
    /\ running = InitialRunning
    /\ bal = NoBal
    /\ UiIdle

\* calculate(), lines 237-443, on the field texts in
Calculate(in) ==
    LET shown == updateMonthlyPaymentDisplay(validateInputs(in))
    IN  /\ inputs' = shown
        /\ snap' = ReadInputs(shown)
        /\ Render(snap')
        /\ search' = saveToURL(shown)
        /\ saved' = shown

Entry(kind) == [kind |-> kind, at |-> now]

UserEvents == {i \in DOMAIN log : log[i].kind \in {"input", "change"}}

TimerDue == \E t \in timers : t.due <= now

\* line 671
FirstCalculate ==
    /\ pc = "calc"
    /\ Calculate(inputs)
    /\ pc' = "ready"
    /\ log' = Append(log, Entry("load"))
    /\ UNCHANGED <<bal, timers, timeoutId, now>>

setTimeout_Lost(ts, id, due) == ts

setTimeout(ts, id, due) == ts \cup {[id |-> id, due |-> due]}

clearTimeout_Keeps(ts, id) == ts

clearTimeout(ts, id) == {t \in ts : t.id # id}

\* an "input" event of a text field: debouncedCalculate (lines 16-19, 90)
InputEvent ==
    /\ pc = "ready"
    /\ ~TimerDue
    /\ Cardinality(UserEvents) < MaxEvents
    /\ \E f \in DOMAIN TypedTexts : \E s \in TypedTexts[f] \ {inputs[f]} :
          inputs' = [inputs EXCEPT ![f] = s]
    /\ LET id == Len(log) + 1
       IN  /\ timers' = setTimeout(clearTimeout(timers, timeoutId), id, now + Delay)
           /\ timeoutId' = id
    /\ log' = Append(log, Entry("input"))
    /\ UNCHANGED <<snap, viewVars, bal, search, pc, saved, now>>

\* a "change" event of a select: calculate (line 88)
ChangeEvent ==
    /\ pc = "ready"
    /\ ~TimerDue
    /\ Cardinality(UserEvents) < MaxEvents
    /\ \E f \in SelectFields : \E o \in SelectOptions[f] \ {inputs[f]} :
          Calculate([inputs EXCEPT ![f] = o])
    /\ log' = Append(log, Entry("change"))
    /\ UNCHANGED <<bal, pc, timers, timeoutId, now>>

\* the timeout of line 18 runs: fn.apply(this, args)
TimerFire ==
    /\ \E t \in timers :
          /\ t.due <= now
          /\ timers' = timers \ {t}
    /\ Calculate(inputs)
    /\ log' = Append(log, Entry("timer"))
    /\ UNCHANGED <<bal, pc, timeoutId, now>>

\* time passes, up to the instant the next timeout is due
Tick ==
    /\ pc = "ready"
    /\ ~TimerDue
    /\ \E d \in Advances :
          /\ now' = IF \E t \in timers : t.due < now + d
                    THEN CHOOSE u \in {t.due : t \in timers} :
                             \A t \in timers : u <= t.due
                    ELSE now + d
          /\ now' <= MaxTime
    /\ UNCHANGED <<snap, viewVars, bal, formVars, timers, timeoutId, log>>

NextUI ==
    LoadFromURL \/ FirstCalculate \/ InputEvent \/ ChangeEvent \/ TimerFire \/ Tick

SpecUI == InitUI /\ [][NextUI]_vars

(***************************************************************************)
(* Properties                                                              *)
(***************************************************************************)
Calculated == currentYearlyData # <<>>

Years == DOMAIN currentYearlyData

\* C1: one run of the loop yields yearsToHold + 1 records whose year fields
\* are 0, 1, ..., yearsToHold in that order.
C1_RecordPerYear ==
    Calculated =>
        /\ Len(currentYearlyData) = snap.yearsToHold + 1
        /\ \A i \in Years : currentYearlyData[i].year = i - 1

C1_Witness ==
    /\ Calculated
    /\ snap.yearsToHold = 1
    /\ Len(currentYearlyData) = 2
    /\ currentYearlyData[2].year = 1

\* C2: the remaining balance is never negative, whatever the rate and
\* however many months were paid.
C2_BalanceNeverNegative == bal.called => RLe(R(0), bal.result)

\* C3: the year-0 record reports a net rental cash flow of 0 and a
\* cumulative rental cash flow of 0.
C3_YearZeroCashFlow ==
    Calculated =>
        /\ currentYearlyData[1].netRentalCashFlow = R(0)
        /\ currentYearlyData[1].cumulativeRentalCashFlow = R(0)

C3_Witness ==
    /\ Calculated
    /\ currentYearlyData[1].year = 0
    /\ currentYearlyData[1].netRentalCashFlow = R(0)
    /\ currentYearlyData[1].cumulativeRentalCashFlow = R(0)
    /\ snap.rentalPrice = R(6000)
    /\ RLt(R(0), currentYearlyData[2].netRentalCashFlow)

\* C4: with a negative year-0 baseline the sell trajectory is that baseline
\* in every year; with a positive one it is baseline * (1 + return/100)^year.
C4_SellTrajectory ==
    Calculated =>
        LET baseline == currentYearlyData[1].netAfterTaxProceeds
        IN  \A i \in Years :
              /\ RLt(baseline, R(0)) =>
                    currentYearlyData[i].sellYear0Total = baseline
              /\ RLt(R(0), baseline) =>
                    currentYearlyData[i].sellYear0Total =
                        RMul(baseline, RPow(Growth(snap.investmentReturn), i - 1))

C4_Witness ==
    /\ Calculated
    /\ RLt(currentYearlyData[1].netAfterTaxProceeds, R(0))
    /\ snap.investmentReturn = R(50)
    /\ Len(currentYearlyData) = MaxYears + 1
    /\ currentYearlyData[MaxYears + 1].sellYear0Total
         = currentYearlyData[1].netAfterTaxProceeds

\* C5: the capital-gains tax owed is 0 without a gain or when the sale is
\* underwater, max(0, gain - 500000) * rate for a primary residence up to
\* year 3, gain * rate otherwise; it is never negative.
C5_Expected(d) ==
    LET gain == RSub(d.homeValue, snap.purchasePrice)
        netSaleProceeds == RSub(RSub(d.homeValue, d.loanBalance), d.sellingCosts)
        rate == RDiv(snap.capitalGainsTax, R(100))
    IN  IF RLe(gain, R(0)) \/ RLt(netSaleProceeds, R(0)) THEN R(0)
        ELSE IF snap.isPrimaryResidence /\ d.year <= 3
        THEN RMul(RMax(R(0), RSub(gain, R(500000))), rate)
        ELSE RMul(gain, rate)

C5_CapitalGainsTax ==
    Calculated =>
        \A i \in Years :
            /\ currentYearlyData[i].capitalGainsTaxOwed = C5_Expected(currentYearlyData[i])
            /\ RLe(R(0), currentYearlyData[i].capitalGainsTaxOwed)

C5_Witness ==
    /\ Calculated
    /\ snap.isPrimaryResidence
    /\ Len(currentYearlyData) >= 5
    /\ RLt(R(0), RSub(currentYearlyData[1].homeValue, snap.purchasePrice))
    /\ RLt(RSub(currentYearlyData[1].homeValue, snap.purchasePrice), R(500000))
    /\ currentYearlyData[4].capitalGainsTaxOwed = R(0)
    /\ RLt(R(0), currentYearlyData[5].capitalGainsTaxOwed)

\* C6: a record is tagged "rent" (hold) exactly when its hold net worth is
\* strictly greater than its sell-trajectory value; a tie is tagged "sell".
C6_BetterOptionTag ==
    Calculated =>
        \A i \in Years :
            LET d == currentYearlyData[i]
            IN  /\ d.betterOption \in {"rent", "sell"}
                /\ d.betterOption = "rent" <=>
                       RLt(d.sellYear0Total, d.simpleRentalNetWorth)
                /\ d.simpleRentalNetWorth = d.sellYear0Total =>
                       d.betterOption = "sell"

C6_Witness ==
    /\ Calculated
    /\ \E i \in Years : i > 1 /\ currentYearlyData[i].betterOption = "rent"
    /\ \E i \in Years :
          /\ i > 1
          /\ currentYearlyData[i].simpleRentalNetWorth
               = currentYearlyData[i].sellYear0Total
          /\ currentYearlyData[i].betterOption = "sell"

\* C7: the summary reports hold/rent exactly when the last record is tagged
\* "rent", and sell exactly when it is tagged "sell", ties included.
C7_SummaryFollowsTag ==
    Calculated =>
        LET last == currentYearlyData[Len(currentYearlyData)]
        IN  /\ summary.better = "Rent" <=> last.betterOption = "rent"
            /\ summary.better = "Sell" <=> last.betterOption = "sell"

InputEntries == {i \in DOMAIN log : log[i].kind = "input"}

DebouncedCalls == {i \in DOMAIN log : log[i].kind = "timer"}

\* between the entries i and c of the log: no keystroke, no debounced call
Quiet(i, c) == \A j \in (i + 1)..(c - 1) : log[j].kind \notin {"input", "timer"}

\* the keystroke i ended its burst: none followed within the delay
BurstOver(i) ==
    /\ \A j \in InputEntries : j > i => log[j].at >= log[i].at + Delay
    /\ \/ now > log[i].at + Delay
       \/ \E j \in InputEntries : j > i

\* C8: keystrokes less than 100 ms apart are coalesced: the debounced
\* calculate runs once per burst, 100 ms after the last keystroke of the
\* burst, and never more than one debounce timer is pending.
C8_Coalesced ==
    /\ Cardinality(timers) <= 1
    /\ \A c \in DebouncedCalls :
          \E i \in InputEntries :
             /\ i < c
             /\ log[c].at = log[i].at + Delay
             /\ Quiet(i, c)
    /\ \A i \in InputEntries :
          BurstOver(i) =>
             \E c \in DebouncedCalls :
                /\ c > i
                /\ log[c].at = log[i].at + Delay
                /\ Quiet(i, c)

C8_Witness ==
    \E i \in InputEntries :
       /\ i + 2 \in DebouncedCalls
       /\ i + 1 \in InputEntries
       /\ log[i + 1].at > log[i].at
       /\ log[i + 1].at < log[i].at + Delay
       /\ log[i + 2].at = log[i + 1].at + Delay
       /\ Cardinality(DebouncedCalls) = 1

\* C9: loading the URL that saveToURL wrote gives every field but monthlyPI
\* the text it had when it was saved; monthlyPI is not in the URL and keeps
\* the text of the fresh page.
C9_URLRoundTrip ==
    (pc = "calc" /\ search # <<>>) =>
        /\ \A f \in Keys \ {"monthlyPI"} : inputs[f] = saved[f]
        /\ inputs.monthlyPI = HtmlDefaults.monthlyPI
        /\ \A i \in DOMAIN search : search[i] # "monthlyPI"

C9_Witness ==
    /\ pc = "calc"
    /\ search # <<>>
    /\ inputs.purchasePrice = T_JUNK
    /\ saved.purchasePrice = T_JUNK
    /\ saved.monthlyPI # <<>>
    /\ inputs.monthlyPI = <<>>

\* C10: after validateInputs every numeric constant calculate() reads lies
\* within the range the field is clamped to.
C10_UsedValuesInRange ==
    pc = "ready" =>
        \A f \in NumericFields :
           LET used == IF Ranges[f].isInt THEN R(snap[f]) ELSE snap[f]
           IN  /\ RLe(Ranges[f].min, used)
               /\ Ranges[f].max = Infinity \/ RLe(used, Ranges[f].max)

Invocations == {i \in DOMAIN log : log[i].kind \in {"load", "change", "timer"}}

\* calculate() on the snapshot s when nothing was calculated before: the
\* loop entered with both running locals at 0
FreshRun(s) ==
    Loop(s, calculateMonthlyPayment(s.originalLoanAmount, s.interestRate,
                                    s.mortgageTerm),
         getMonthsElapsed(s.loanOriginDate), 0, R(0), R(0), <<>>)

\* C11: whatever was calculated before, the records (and the final running
\* locals) of an invocation are those of a first invocation on the same
\* snapshot: the cumulative cash flow and the baseline start from 0.
C11_NoCarryOver ==
    Invocations # {} =>
        /\ currentYearlyData = FreshRun(snap).yearlyData
        /\ running.cum = FreshRun(snap).cum
        /\ running.base = FreshRun(snap).base

C11_Witness ==
    /\ Cardinality(Invocations) = 3
    /\ running.cum # R(0)
    /\ running.base # R(0)
    /\ \E i \in Invocations : log[i].kind = "timer"
    /\ Len(currentYearlyData) = 3

RECURSIVE SumNet(_, _)
SumNet(data, k) ==
    IF k = 0 THEN R(0)
    ELSE RAdd(SumNet(data, k - 1), data[k + 1].netRentalCashFlow)

\* the rental profit of a year, from the monthly figures of its record
ProfitOf(d) ==
    RMul(R(12), RSub(d.monthlyBreakdown.rent, d.monthlyBreakdown.expenses))

\* C13: for every year k >= 1 the reported cumulative rental cash flow is
\* the sum of the reported net rental cash flows of the years 1..k, and the
\* net cash flow of a year is its rental profit, less rentalTaxRate% of it
\* when the profit is positive and unchanged when it is a loss.
C13_CumulativeIsSum ==
    Calculated =>
        \A i \in Years :
           LET d == currentYearlyData[i]
           IN  d.year >= 1 =>
                  /\ d.cumulativeRentalCashFlow = SumNet(currentYearlyData, d.year)
                  /\ d.netRentalCashFlow =
                        IF RLt(R(0), ProfitOf(d))
                        THEN RSub(ProfitOf(d),
                                  RMul(ProfitOf(d), RDiv(snap.rentalTaxRate, R(100))))
                        ELSE ProfitOf(d)

C13_Witness ==
    /\ Calculated
    /\ Len(currentYearlyData) = MaxYears + 1
    /\ RLt(R(0), snap.rentalTaxRate)
    /\ RLt(R(0), currentYearlyData[2].netRentalCashFlow)
    /\ RLt(currentYearlyData[2].netRentalCashFlow, ProfitOf(currentYearlyData[2]))
    /\ \E j \in Years : RLt(currentYearlyData[j].netRentalCashFlow, R(0))
    /\ currentYearlyData[3].cumulativeRentalCashFlow =
          RAdd(currentYearlyData[2].netRentalCashFlow,
               currentYearlyData[3].netRentalCashFlow)

\* C14: the year-0 record is always tagged "sell": its sell-trajectory value
\* is the year-0 net after-tax proceeds (the baseline is captured first),
\* its hold net worth is 0 when those proceeds are positive and equal to
\* them otherwise, so the hold net worth is never the greater of the two.
C14_YearZeroSell ==
    Calculated =>
        LET d == currentYearlyData[1]
        IN  /\ d.year = 0
            /\ d.betterOption = "sell"
            /\ d.sellYear0Total = d.netAfterTaxProceeds
            /\ d.simpleRentalNetWorth =
                  IF RLt(R(0), d.netAfterTaxProceeds) THEN R(0)
                  ELSE d.netAfterTaxProceeds
            /\ RLe(d.simpleRentalNetWorth, d.sellYear0Total)

C14_Witness ==
    /\ Calculated
    /\ currentYearlyData[1].betterOption = "sell"
    /\ RLt(currentYearlyData[1].netAfterTaxProceeds, R(0))
    /\ currentYearlyData[1].simpleRentalNetWorth = currentYearlyData[1].sellYear0Total
    /\ \E i \in Years : currentYearlyData[i].betterOption = "rent"

\* C15: when no timer is pending the last thing that happened on the page
\* is an invocation of calculate(), and what it left (the records held for
\* the table, the summary and the chart tooltips, the constants read, the
\* URL) is what the texts now in the fields give.
C15_NeverStale ==
    (pc = "ready" /\ timers = {}) =>
        /\ Len(log) \in Invocations
        /\ snap = ReadInputs(inputs)
        /\ currentYearlyData = FreshRun(ReadInputs(inputs)).yearlyData
        /\ rowClasses = updateTable(currentYearlyData)
        /\ summary = updateSummary(currentYearlyData)
        /\ search = saveToURL(inputs)

C15_Witness ==
    /\ pc = "ready"
    /\ timers = {}
    /\ Len(log) = 4
    /\ log[2].kind = "input"
    /\ log[3].kind = "change"
    /\ log[3].at < log[2].at + Delay
    /\ log[4].kind = "timer"
    /\ inputs.rentalPrice = T_6000
    /\ snap.rentalPrice = R(6000)
    /\ snap.isPrimaryResidence

====
